---- MODULE Spec2Model ----
(***************************************************************************)
(* tinyproxy statistics module (src/stats.c): the five counters guarded by *)
(* stats_update_lock, update_stats(), and the reporting call showstats()   *)
(* with its template selection, guarded by stats_file_lock.                *)
(*                                                                         *)
(* Worker threads call update_stats and showstats concurrently.  Every     *)
(* access to shared memory (a counter field, a mutex, the template file)   *)
(* is one step of the calling thread, so all interleavings the pthread     *)
(* scheduler can produce are explored.                                     *)
(***************************************************************************)
EXTENDS Integers, Sequences, FiniteSets, TLC

(***************************************************************************)
(* Bounds of the model.                                                    *)
(***************************************************************************)
\* width in bits of "unsigned long int" in the model (scaled down)
LongBits == 2
\* calls (update_stats or showstats) the concurrent workers issue in one behaviour
MaxCalls == 2
\* update_stats calls one worker issues in a row
MaxSeqUpdates == 5
\* showstats calls one worker issues in a row
MaxShows == 2
\* number of pieces an accept header is concatenated from
MaxAcceptParts == 2

\* the worker threads
Threads == {1, 2}

NONE == "none"
NULL == "NULL"

(***************************************************************************)
(* unsigned long arithmetic                                                *)
(***************************************************************************)
RECURSIVE Pow2(_)
Pow2(n) == IF n = 0 THEN 1 ELSE 2 * Pow2(n - 1)

\* ULONG_MAX + 1
Modulus == Pow2(LongBits)

\* ++x on an unsigned long
Inc(x) == (x + 1) % Modulus

DecSaturating(x) == IF x > 0 THEN x - 1 ELSE 0
\* --x on an unsigned long
Dec(x) == (x + Modulus - 1) % Modulus

(***************************************************************************)
(* status_t and the switch of update_stats                                 *)
(***************************************************************************)
STAT_BADCONN == "STAT_BADCONN"
STAT_OPEN    == "STAT_OPEN"
STAT_CLOSE   == "STAT_CLOSE"
STAT_REFUSE  == "STAT_REFUSE"
STAT_DENIED  == "STAT_DENIED"
\* any value of the enum's integer type that is none of the five
STAT_OTHER   == "STAT_OTHER"

ValidLevels == {STAT_BADCONN, STAT_OPEN, STAT_CLOSE, STAT_REFUSE, STAT_DENIED}
Levels == ValidLevels \cup {STAT_OTHER}

Fields == {"num_reqs", "num_badcons", "num_open", "num_refused", "num_denied"}

\* struct stat_s, zero-initialised static storage
ZeroStats == [f \in Fields |-> 0]

Op(f, o) == [field |-> f, op |-> o]

SwitchBodyCloseCountsRequest(level) ==
    CASE level = STAT_BADCONN -> << Op("num_badcons", "inc") >>
      [] level = STAT_OPEN    -> << Op("num_open", "inc"), Op("num_reqs", "inc") >>
      [] level = STAT_CLOSE   -> << Op("num_open", "dec"), Op("num_reqs", "dec") >>
      [] level = STAT_REFUSE  -> << Op("num_refused", "inc") >>
      [] level = STAT_DENIED  -> << Op("num_denied", "inc") >>
      [] OTHER                -> << >>

\* the statements of the case the switch jumps to, in program order
SwitchBody(level) ==
    CASE level = STAT_BADCONN -> << Op("num_badcons", "inc") >>
      [] level = STAT_OPEN    -> << Op("num_open", "inc"), Op("num_reqs", "inc") >>
      [] level = STAT_CLOSE   -> << Op("num_open", "dec") >>
      [] level = STAT_REFUSE  -> << Op("num_refused", "inc") >>
      [] level = STAT_DENIED  -> << Op("num_denied", "inc") >>
      [] OTHER                -> << >>

SwitchRetAlwaysZero(level) == 0
\* ret after the switch: 0 from its initialiser, -1 from the default case
SwitchRet(level) == IF level \in ValidLevels THEN 0 ELSE -1

ApplyOp(o, x) == IF o = "inc" THEN Inc(x) ELSE Dec(x)

(***************************************************************************)
(* pthread mutexes                                                         *)
(***************************************************************************)
\* PTHREAD_MUTEX_INITIALIZER: no thread owns the mutex
Unlocked == 0

MutexAlwaysFree(m) == TRUE
\* pthread_mutex_lock returns only when nobody holds the mutex
MutexFree(m) == m = Unlocked

(***************************************************************************)
(* C strings are sequences of characters.                                  *)
(***************************************************************************)
TextHtml  == << "t","e","x","t","/","h","t","m","l" >>
AppJson   == << "a","p","p","l","i","c","a","t","i","o","n","/","j","s","o","n" >>
TextPlain == << "t","e","x","t","/","p","l","a","i","n" >>

StatsHtml == "data/templates/stats.html"
StatsJson == "data/templates/stats.json"
\* a configured StatFile path
StatPagePath == "statpage"

\* strstr(haystack, needle) != NULL, both arguments being strings
Strstr(haystack, needle) ==
    \E i \in 1..(Len(haystack) - Len(needle) + 1) :
        SubSeq(haystack, i, i + Len(needle) - 1) = needle

\* stat_types after init_stats: the orderedmap, in insertion order
StatTypes == << [key |-> TextHtml, value |-> StatsHtml],
                [key |-> AppJson,  value |-> StatsJson] >>

RECURSIVE ScanLastMatch(_, _, _, _)
ScanLastMatch(map, iter, accept, found) ==
    IF iter > Len(map) THEN found
    ELSE ScanLastMatch(map, iter + 1, accept,
                       IF Strstr(accept, map[iter].key) THEN map[iter].value ELSE found)

RECURSIVE ScanFrom(_, _, _, _)
\* the while loop over orderedmap_next: type_based_stats when it ends
ScanFrom(map, iter, accept, found) ==
    IF iter > Len(map) THEN found
    ELSE IF Strstr(accept, map[iter].key) THEN map[iter].value
    ELSE ScanFrom(map, iter + 1, accept, found)

\* the if / else if / else that sets stats_template
ChooseTemplate(type_based_stats, configured) ==
    IF type_based_stats # NULL THEN type_based_stats
    ELSE IF configured # NULL THEN configured
    ELSE NULL

UseBuiltinNoTemplateOnly(template, opened) == template = NULL
\* the condition guarding the built-in page: no template, or fopen failed
UseBuiltin(template, opened) == template = NULL \/ ~opened

(***************************************************************************)
(* snprintf(buf, size, "%lu", n)                                           *)
(***************************************************************************)
DigitChars == << "0","1","2","3","4","5","6","7","8","9" >>

RECURSIVE Decimal(_)
\* the decimal digits "%lu" produces
Decimal(n) ==
    IF n < 10 THEN << DigitChars[n + 1] >>
    ELSE Decimal(n \div 10) \o << DigitChars[(n % 10) + 1] >>

\* sizeof of the char[16] buffers
StrBufSize == 16

\* at most size - 1 characters are stored
Snprintf(size, n) ==
    LET s == Decimal(n) IN IF Len(s) < size THEN s ELSE SubSeq(s, 1, size - 1)

(***************************************************************************)
(* Inputs                                                                  *)
(***************************************************************************)
AcceptPieces == {TextHtml, AppJson, TextPlain}

RECURSIVE Concats(_)
Concats(n) ==
    IF n = 0 THEN { << >> }
    ELSE LET shorter == Concats(n - 1)
         IN shorter \cup { s \o p : s \in shorter, p \in AcceptPieces }

\* a char * : the null pointer, or a pointer to a string
NullStr == [null |-> TRUE, str |-> << >>]
StrPtr(s) == [null |-> FALSE, str |-> s]

\* value of the request's accept header; the null pointer when it has none
AcceptHeaders == {NullStr} \cup {StrPtr(s) : s \in Concats(MaxAcceptParts)}

\* the accept headers of the requests served while updates run concurrently:
\* none, one no entry matches, one an entry matches
ConcurrentHeaders == {NullStr, StrPtr(TextPlain), StrPtr(TextHtml)}

(***************************************************************************)
(* State                                                                   *)
(***************************************************************************)
VARIABLES
    stats,              \* *stats, the counters
    stats_update_lock,  \* thread owning the mutex, or Unlocked
    stats_file_lock,    \* thread owning the mutex, or Unlocked
    statpage,           \* config->statpage
    stat_types,         \* the orderedmap init_stats filled
    crashed,            \* the process was killed
    pc,                 \* position of each thread
    update_level,       \* argument of update_stats
    ret,                \* value the call returns
    pending,            \* statements of the switch case still to run
    reg,                \* value loaded by ++ / -- before it is stored
    request_headers,    \* what orderedmap_find(request_headers, "accept") yields
    stats_template,     \* showstats local
    statfile,           \* the FILE *: NONE (not set), NULL, "open" or "closed"
    strbuf,             \* opens, reqs, badconns, denied, refused
    message_buffer,     \* NULL, or the counters printed into the page so far
    conn,               \* what was handed to the connection
    malloc_failed,      \* safemalloc returned NULL in this call
    lin,                \* update levels in the order they took the lock
    ncalls              \* calls issued so far

vars == << stats, stats_update_lock, stats_file_lock, statpage, stat_types, crashed, pc,
           update_level, ret, pending, reg, request_headers, stats_template,
           statfile, strbuf, message_buffer, conn, malloc_failed, lin, ncalls >>

shared == << stats, stats_update_lock, stats_file_lock >>
updLocals == << update_level, pending, reg >>
showLocals == << request_headers, stats_template, statfile, strbuf,
                 message_buffer, conn, malloc_failed >>

StrNames == {"opens", "reqs", "badconns", "denied", "refused"}
\* a buffer nothing was printed into yet
UNSET == << >>
NoStr == [n \in StrNames |-> UNSET]
NoPage == [f \in Fields |-> UNSET]
\* message_buffer: the null pointer, or the page with the counters printed so far
NullBuf == [null |-> TRUE, page |-> NoPage]
Buffer(page) == [null |-> FALSE, page |-> page]
NoConn == [vars |-> NoStr, status |-> 0, headers |-> FALSE, body |-> NONE,
           page |-> NoPage, senderr |-> FALSE]

Init ==
    /\ stats = ZeroStats
    /\ stats_update_lock = Unlocked
    /\ stats_file_lock = Unlocked
    /\ statpage \in {NULL, StatPagePath}
    /\ stat_types = StatTypes
    /\ crashed = FALSE
    /\ pc = [t \in Threads |-> "idle"]
    /\ update_level = [t \in Threads |-> NONE]
    /\ ret = [t \in Threads |-> 0]
    /\ pending = [t \in Threads |-> << >>]
    /\ reg = [t \in Threads |-> 0]
    /\ request_headers = [t \in Threads |-> NullStr]
    /\ stats_template = [t \in Threads |-> NONE]
    /\ statfile = [t \in Threads |-> NONE]
    /\ strbuf = [t \in Threads |-> NoStr]
    /\ message_buffer = [t \in Threads |-> NullBuf]
    /\ conn = [t \in Threads |-> NoConn]
    /\ malloc_failed = [t \in Threads |-> FALSE]
    /\ lin = << >>
    /\ ncalls = 0

(***************************************************************************)
(* update_stats                                                            *)
(***************************************************************************)
\* a worker calls update_stats(level)
UpdateCall(t, max) ==
    /\ ~crashed
    /\ pc[t] = "idle"
    /\ ncalls < max
    /\ ncalls' = ncalls + 1
    /\ \E level \in Levels : update_level' = [update_level EXCEPT ![t] = level]
    /\ ret' = [ret EXCEPT ![t] = 0]
    /\ pc' = [pc EXCEPT ![t] = "u175"]
    /\ UNCHANGED << shared, statpage, stat_types, crashed, pending, reg, showLocals, lin >>

\* pthread_mutex_lock(&stats_update_lock)
UpdateLock(t) ==
    /\ ~crashed
    /\ pc[t] = "u175"
    /\ MutexFree(stats_update_lock)
    /\ stats_update_lock' = t
    /\ lin' = Append(lin, update_level[t])
    /\ pc' = [pc EXCEPT ![t] = "u176"]
    /\ UNCHANGED << stats, stats_file_lock, statpage, stat_types, crashed, update_level, ret,
                    pending, reg, showLocals, ncalls >>

\* switch (update_level)
UpdateSwitch(t) ==
    /\ ~crashed
    /\ pc[t] = "u176"
    /\ pending' = [pending EXCEPT ![t] = SwitchBody(update_level[t])]
    /\ ret' = [ret EXCEPT ![t] = SwitchRet(update_level[t])]
    /\ pc' = [pc EXCEPT ![t] = "u_case"]
    /\ UNCHANGED << shared, statpage, stat_types, crashed, update_level, reg, showLocals, lin, ncalls >>

\* ++stats->f or --stats->f: the load
UpdateLoad(t) ==
    /\ ~crashed
    /\ pc[t] = "u_case"
    /\ pending[t] # << >>
    /\ reg' = [reg EXCEPT ![t] = stats[Head(pending[t]).field]]
    /\ pc' = [pc EXCEPT ![t] = "u_store"]
    /\ UNCHANGED << shared, statpage, stat_types, crashed, update_level, ret, pending,
                    showLocals, lin, ncalls >>

\* ++stats->f or --stats->f: the store
UpdateStore(t) ==
    /\ ~crashed
    /\ pc[t] = "u_store"
    /\ LET o == Head(pending[t])
       IN stats' = [stats EXCEPT ![o.field] = ApplyOp(o.op, reg[t])]
    /\ reg' = [reg EXCEPT ![t] = 0]
    /\ pending' = [pending EXCEPT ![t] = Tail(pending[t])]
    /\ pc' = [pc EXCEPT ![t] = "u_case"]
    /\ UNCHANGED << stats_update_lock, stats_file_lock, statpage, stat_types, crashed,
                    update_level, ret, showLocals, lin, ncalls >>

\* break / end of the switch, pthread_mutex_unlock(&stats_update_lock)
UpdateUnlock(t) ==
    /\ ~crashed
    /\ pc[t] = "u_case"
    /\ pending[t] = << >>
    /\ stats_update_lock' = Unlocked
    /\ pc' = [pc EXCEPT ![t] = "u198"]
    /\ UNCHANGED << stats, stats_file_lock, statpage, stat_types, crashed, update_level, ret,
                    pending, reg, showLocals, lin, ncalls >>

\* return ret
UpdateReturn(t) ==
    /\ ~crashed
    /\ pc[t] = "u198"
    /\ pc' = [pc EXCEPT ![t] = "idle"]
    /\ update_level' = [update_level EXCEPT ![t] = NONE]
    /\ ret' = [ret EXCEPT ![t] = 0]
    /\ UNCHANGED << shared, statpage, stat_types, crashed, pending, reg, showLocals, lin, ncalls >>

(***************************************************************************)
(* showstats                                                               *)
(***************************************************************************)
\* a worker calls showstats(connptr, request_headers)
ShowCall(t, headers, max) ==
    /\ ~crashed
    /\ pc[t] = "idle"
    /\ ncalls < max
    /\ ncalls' = ncalls + 1
    /\ \E h \in headers : request_headers' = [request_headers EXCEPT ![t] = h]
    /\ stats_template' = [stats_template EXCEPT ![t] = NONE]
    /\ pc' = [pc EXCEPT ![t] = "s80"]
    /\ UNCHANGED << shared, statpage, stat_types, crashed, update_level, ret, pending, reg,
                    statfile, strbuf, message_buffer, conn, malloc_failed, lin >>

\* one snprintf (buf, sizeof (buf), "%lu", stats->field) of lines 80-84
Format(t, at, name, field, next) ==
    /\ ~crashed
    /\ pc[t] = at
    /\ strbuf' = [strbuf EXCEPT ![t][name] = Snprintf(StrBufSize, stats[field])]
    /\ pc' = [pc EXCEPT ![t] = next]
    /\ UNCHANGED << shared, statpage, stat_types, crashed, update_level, ret, pending, reg,
                    request_headers, stats_template, statfile, message_buffer,
                    conn, malloc_failed, lin, ncalls >>

FormatOpens(t)    == Format(t, "s80", "opens", "num_open", "s81")
FormatReqs(t)     == Format(t, "s81", "reqs", "num_reqs", "s82")
FormatBadconns(t) == Format(t, "s82", "badconns", "num_badcons", "s83")
FormatDenied(t)   == Format(t, "s83", "denied", "num_denied", "s84")
FormatRefused(t)  == Format(t, "s84", "refused", "num_refused", "s86")

\* lines 86-106 with an accept header: the scan of stat_types and the choice
SelectTemplate(t) ==
    /\ ~crashed
    /\ pc[t] = "s86"
    /\ ~request_headers[t].null
    /\ stats_template' = [stats_template EXCEPT ![t] =
           ChooseTemplate(ScanFrom(stat_types, 1, request_headers[t].str, NULL), statpage)]
    /\ pc' = [pc EXCEPT ![t] = "s108"]
    /\ UNCHANGED << shared, statpage, stat_types, crashed, update_level, ret, pending, reg,
                    request_headers, statfile, strbuf, message_buffer, conn,
                    malloc_failed, lin, ncalls >>

\* lines 86-106 without an accept header: strstr (NULL, stat_type) is undefined
\* behaviour; the call returns an arbitrary pointer
SelectTemplateNullAccept(t) ==
    /\ ~crashed
    /\ pc[t] = "s86"
    /\ request_headers[t].null
    /\ \E type_based_stats \in {NULL} \cup {stat_types[i].value : i \in 1..Len(stat_types)} :
           stats_template' = [stats_template EXCEPT ![t] =
                                  ChooseTemplate(type_based_stats, statpage)]
    /\ pc' = [pc EXCEPT ![t] = "s108"]
    /\ UNCHANGED << shared, statpage, stat_types, crashed, update_level, ret, pending, reg,
                    request_headers, statfile, strbuf, message_buffer, conn,
                    malloc_failed, lin, ncalls >>

\* lines 86-106 without an accept header: strstr (NULL, stat_type) is undefined
\* behaviour; the read through the null pointer kills the process
SelectTemplateCrash(t) ==
    /\ ~crashed
    /\ pc[t] = "s86"
    /\ request_headers[t].null
    /\ crashed' = TRUE
    /\ UNCHANGED << shared, statpage, stat_types, pc, update_level, ret, pending, reg,
                    showLocals, lin, ncalls >>

\* pthread_mutex_lock(&stats_file_lock)
ShowLock(t) ==
    /\ ~crashed
    /\ pc[t] = "s108"
    /\ MutexFree(stats_file_lock)
    /\ stats_file_lock' = t
    /\ pc' = [pc EXCEPT ![t] = "s110"]
    /\ UNCHANGED << stats, stats_update_lock, statpage, stat_types, crashed, update_level, ret,
                    pending, reg, showLocals, lin, ncalls >>

\* if (!stats_template || !(statfile = fopen (stats_template, "r")))
OpenTemplate(t) ==
    /\ ~crashed
    /\ pc[t] = "s110"
    /\ \E opened \in (IF stats_template[t] = NULL THEN {FALSE} ELSE BOOLEAN) :
           /\ statfile' = [statfile EXCEPT ![t] =
                               IF stats_template[t] = NULL THEN NONE
                               ELSE IF opened THEN "open" ELSE NULL]
           /\ pc' = [pc EXCEPT ![t] =
                         IF UseBuiltin(stats_template[t], opened) THEN "s111" ELSE "s153"]
    /\ UNCHANGED << shared, statpage, stat_types, crashed, update_level, ret, pending, reg,
                    request_headers, stats_template, strbuf, message_buffer, conn,
                    malloc_failed, lin, ncalls >>

\* message_buffer = safemalloc (MAXBUFFSIZE); if (!message_buffer) goto
AllocBuffer(t) ==
    /\ ~crashed
    /\ pc[t] = "s111"
    /\ \E ok \in BOOLEAN :
           /\ message_buffer' = [message_buffer EXCEPT ![t] =
                                     IF ok THEN Buffer(NoPage) ELSE NullBuf]
           /\ malloc_failed' = [malloc_failed EXCEPT ![t] = ~ok]
           /\ pc' = [pc EXCEPT ![t] = IF ok THEN "s118" ELSE "s114"]
    /\ UNCHANGED << shared, statpage, stat_types, crashed, update_level, ret, pending, reg,
                    request_headers, stats_template, statfile, strbuf, conn,
                    lin, ncalls >>

\* one of the arguments stats->field of the snprintf call of lines 118-141 is
\* evaluated; C leaves the order of evaluation of the arguments open
ReadForPage(t) ==
    /\ ~crashed
    /\ pc[t] = "s118"
    /\ \E f \in {g \in Fields : message_buffer[t].page[g] = UNSET} :
           LET page == [message_buffer[t].page EXCEPT ![f] = Decimal(stats[f])]
           IN /\ message_buffer' = [message_buffer EXCEPT ![t] = Buffer(page)]
              /\ pc' = [pc EXCEPT ![t] =
                            IF \A g \in Fields : page[g] # UNSET THEN "s143" ELSE "s118"]
    /\ UNCHANGED << shared, statpage, stat_types, crashed, update_level, ret, pending, reg,
                    request_headers, stats_template, statfile, strbuf, conn,
                    malloc_failed, lin, ncalls >>

AfterSendMessageInverted(res) == IF res < 0 THEN "s150" ELSE "s114"
\* if (send_http_message (...) < 0) goto err_minus_one, else fall through
AfterSendMessage(res) == IF res < 0 THEN "s114" ELSE "s150"

\* send_http_message (connptr, 200, "OK", message_buffer); safefree
SendMessage(t) ==
    /\ ~crashed
    /\ pc[t] = "s143"
    /\ \E res \in {0, -1} :
           /\ conn' = [conn EXCEPT ![t] =
                  [@ EXCEPT !.status = 200, !.headers = TRUE, !.body = "builtin",
                            !.page = message_buffer[t].page,
                            !.senderr = (res < 0)]]
           /\ pc' = [pc EXCEPT ![t] = AfterSendMessage(res)]
    /\ message_buffer' = [message_buffer EXCEPT ![t] = NullBuf]
    /\ UNCHANGED << shared, statpage, stat_types, crashed, update_level, ret, pending, reg,
                    request_headers, stats_template, statfile, strbuf,
                    malloc_failed, lin, ncalls >>

\* err_minus_one: pthread_mutex_unlock(&stats_file_lock); return -1
UnlockError(t) ==
    /\ ~crashed
    /\ pc[t] = "s114"
    /\ stats_file_lock' = Unlocked
    /\ ret' = [ret EXCEPT ![t] = -1]
    /\ pc' = [pc EXCEPT ![t] = "s_return"]
    /\ UNCHANGED << stats, stats_update_lock, statpage, stat_types, crashed, update_level,
                    pending, reg, showLocals, lin, ncalls >>

\* pthread_mutex_unlock(&stats_file_lock); return 0 of the built-in page
UnlockBuiltin(t) ==
    /\ ~crashed
    /\ pc[t] = "s150"
    /\ stats_file_lock' = Unlocked
    /\ ret' = [ret EXCEPT ![t] = 0]
    /\ pc' = [pc EXCEPT ![t] = "s_return"]
    /\ UNCHANGED << stats, stats_update_lock, statpage, stat_types, crashed, update_level,
                    pending, reg, showLocals, lin, ncalls >>

AddVariablesThenBody(t) ==
    /\ ~crashed
    /\ pc[t] = "s153"
    /\ conn' = [conn EXCEPT ![t].vars = strbuf[t]]
    /\ pc' = [pc EXCEPT ![t] = "s160"]
    /\ UNCHANGED << shared, statpage, stat_types, crashed, update_level, ret, pending, reg,
                    request_headers, stats_template, statfile, strbuf,
                    message_buffer, malloc_failed, lin, ncalls >>

\* the five add_error_variable calls and add_standard_vars
AddVariables(t) ==
    /\ ~crashed
    /\ pc[t] = "s153"
    /\ conn' = [conn EXCEPT ![t].vars = strbuf[t]]
    /\ pc' = [pc EXCEPT ![t] = "s159"]
    /\ UNCHANGED << shared, statpage, stat_types, crashed, update_level, ret, pending, reg,
                    request_headers, stats_template, statfile, strbuf,
                    message_buffer, malloc_failed, lin, ncalls >>

SendHeadersErrorStatus(t) ==
    /\ ~crashed
    /\ pc[t] = "s159"
    /\ \E res \in {0, -1} :
           conn' = [conn EXCEPT ![t] =
               [@ EXCEPT !.status = (IF res < 0 THEN 500 ELSE 200), !.headers = TRUE,
                         !.senderr = (@ \/ res < 0)]]
    /\ pc' = [pc EXCEPT ![t] = "s160"]
    /\ UNCHANGED << shared, statpage, stat_types, crashed, update_level, ret, pending, reg,
                    request_headers, stats_template, statfile, strbuf,
                    message_buffer, malloc_failed, lin, ncalls >>

\* send_http_headers (connptr, 200, "Statistic requested", ""); result unused
SendHeaders(t) ==
    /\ ~crashed
    /\ pc[t] = "s159"
    /\ \E res \in {0, -1} :
           conn' = [conn EXCEPT ![t] =
               [@ EXCEPT !.status = 200, !.headers = TRUE,
                         !.senderr = (@ \/ res < 0)]]
    /\ pc' = [pc EXCEPT ![t] = "s160"]
    /\ UNCHANGED << shared, statpage, stat_types, crashed, update_level, ret, pending, reg,
                    request_headers, stats_template, statfile, strbuf,
                    message_buffer, malloc_failed, lin, ncalls >>

\* send_html_file (statfile, connptr); result unused
SendFile(t) ==
    /\ ~crashed
    /\ pc[t] = "s160"
    /\ \E res \in {0, -1} :
           conn' = [conn EXCEPT ![t] =
               [@ EXCEPT !.body = "template", !.senderr = (@ \/ res < 0)]]
    /\ pc' = [pc EXCEPT ![t] = "s161"]
    /\ UNCHANGED << shared, statpage, stat_types, crashed, update_level, ret, pending, reg,
                    request_headers, stats_template, statfile, strbuf,
                    message_buffer, malloc_failed, lin, ncalls >>

CloseTemplateSkipped(t) ==
    /\ ~crashed
    /\ pc[t] = "s161"
    /\ pc' = [pc EXCEPT ![t] = "s162"]
    /\ UNCHANGED << shared, statpage, stat_types, crashed, update_level, ret,
                    pending, reg, showLocals, lin, ncalls >>

\* fclose (statfile)
CloseTemplate(t) ==
    /\ ~crashed
    /\ pc[t] = "s161"
    /\ statfile' = [statfile EXCEPT ![t] = "closed"]
    /\ pc' = [pc EXCEPT ![t] = "s162"]
    /\ UNCHANGED << shared, statpage, stat_types, crashed, update_level, ret, pending, reg,
                    request_headers, stats_template, strbuf, message_buffer, conn,
                    malloc_failed, lin, ncalls >>

\* pthread_mutex_unlock(&stats_file_lock); return 0 of the template path
UnlockTemplate(t) ==
    /\ ~crashed
    /\ pc[t] = "s162"
    /\ stats_file_lock' = Unlocked
    /\ ret' = [ret EXCEPT ![t] = 0]
    /\ pc' = [pc EXCEPT ![t] = "s_return"]
    /\ UNCHANGED << stats, stats_update_lock, statpage, stat_types, crashed, update_level,
                    pending, reg, showLocals, lin, ncalls >>

\* control is back in the caller; the frame and the connection are gone
ShowReturn(t) ==
    /\ ~crashed
    /\ pc[t] = "s_return"
    /\ pc' = [pc EXCEPT ![t] = "idle"]
    /\ ret' = [ret EXCEPT ![t] = 0]
    /\ request_headers' = [request_headers EXCEPT ![t] = NullStr]
    /\ stats_template' = [stats_template EXCEPT ![t] = NONE]
    /\ strbuf' = [strbuf EXCEPT ![t] = NoStr]
    /\ conn' = [conn EXCEPT ![t] = NoConn]
    /\ malloc_failed' = [malloc_failed EXCEPT ![t] = FALSE]
    /\ statfile' = [statfile EXCEPT ![t] = NONE]
    /\ UNCHANGED << shared, statpage, stat_types, crashed, update_level, pending, reg,
                    message_buffer, lin, ncalls >>

Next ==
    \E t \in Threads :
        \/ UpdateCall(t, MaxCalls)
        \/ UpdateLock(t)
        \/ UpdateSwitch(t)
        \/ UpdateLoad(t)
        \/ UpdateStore(t)
        \/ UpdateUnlock(t)
        \/ UpdateReturn(t)
        \/ ShowCall(t, ConcurrentHeaders, MaxCalls)
        \/ FormatOpens(t)
        \/ FormatReqs(t)
        \/ FormatBadconns(t)
        \/ FormatDenied(t)
        \/ FormatRefused(t)
        \/ SelectTemplate(t)
        \/ SelectTemplateCrash(t)
        \/ SelectTemplateNullAccept(t)
        \/ ShowLock(t)
        \/ OpenTemplate(t)
        \/ AllocBuffer(t)
        \/ ReadForPage(t)
        \/ SendMessage(t)
        \/ UnlockError(t)
        \/ UnlockBuiltin(t)
        \/ AddVariables(t)
        \/ SendHeaders(t)
        \/ SendFile(t)
        \/ CloseTemplate(t)
        \/ UnlockTemplate(t)
        \/ ShowReturn(t)

Spec == Init /\ [][Next]_vars

(***************************************************************************)
(* One worker serving reporting requests with every accept header, no      *)
(* updates running: the specification for the selection of the template.   *)
(***************************************************************************)
NextSelect ==
    \E t \in {1} :
        \/ ShowCall(t, AcceptHeaders, MaxShows)
        \/ FormatOpens(t)
        \/ FormatReqs(t)
        \/ FormatBadconns(t)
        \/ FormatDenied(t)
        \/ FormatRefused(t)
        \/ SelectTemplate(t)
        \/ SelectTemplateCrash(t)
        \/ SelectTemplateNullAccept(t)
        \/ ShowLock(t)
        \/ OpenTemplate(t)
        \/ AllocBuffer(t)
        \/ ReadForPage(t)
        \/ SendMessage(t)
        \/ UnlockError(t)
        \/ UnlockBuiltin(t)
        \/ AddVariables(t)
        \/ SendHeaders(t)
        \/ SendFile(t)
        \/ CloseTemplate(t)
        \/ UnlockTemplate(t)
        \/ ShowReturn(t)

SpecSelect == Init /\ [][NextSelect]_vars

(***************************************************************************)
(* One worker issuing update_stats calls one after the other.              *)
(***************************************************************************)
NextSeq ==
    \E t \in {1} :
        \/ UpdateCall(t, MaxSeqUpdates)
        \/ UpdateLock(t)
        \/ UpdateSwitch(t)
        \/ UpdateLoad(t)
        \/ UpdateStore(t)
        \/ UpdateUnlock(t)
        \/ UpdateReturn(t)

SpecSeq == Init /\ [][NextSeq]_vars

(***************************************************************************)
(* Definitions the properties are stated with                              *)
(***************************************************************************)
AllReturned == \A t \in Threads : pc[t] = "idle"

InShowstats(t) == pc[t] \notin {"idle", "u175", "u176", "u_case", "u_store", "u198"}

RECURSIVE CountOf(_, _)
\* number of occurrences of x in the sequence
CountOf(seq, x) ==
    IF seq = << >> THEN 0
    ELSE (IF Head(seq) = x THEN 1 ELSE 0) + CountOf(Tail(seq), x)

\* the unsigned long congruent to the integer n
WrapUL(n) == ((n % Modulus) + Modulus) % Modulus

RECURSIVE RunOps(_, _)
\* the counters after the statements ops ran without interruption
RunOps(s, ops) ==
    IF ops = << >> THEN s
    ELSE RunOps([s EXCEPT ![Head(ops).field] = ApplyOp(Head(ops).op, @)], Tail(ops))

RECURSIVE ApplySeq(_, _)
\* the counters after update_stats ran for each level, one call after the other
ApplySeq(s, levels) ==
    IF levels = << >> THEN s
    ELSE ApplySeq(RunOps(s, SwitchBody(Head(levels))), Tail(levels))

\* the counters as they stood after each prefix of the linearised updates
Snapshots == { ApplySeq(ZeroStats, SubSeq(lin, 1, k)) : k \in 0..Len(lin) }

\* the entries of stat_types whose content type occurs in the header
Matching(header) == { i \in 1..Len(StatTypes) : Strstr(header, StatTypes[i].key) }

\* no entry of stat_types matches the request: no header, or no match
NoMatch(t) == request_headers[t].null \/ Matching(request_headers[t].str) = {}

\* the call of thread t has chosen stats_template
Selected(t) == InShowstats(t) /\ stats_template[t] # NONE

(***************************************************************************)
(* C1: once all concurrent update_stats calls have returned, the five      *)
(* counters equal the result of applying the same calls one after the      *)
(* other in the order they took the lock: no update lost, none twice.      *)
(***************************************************************************)
C1_Linearizable == AllReturned => stats = ApplySeq(ZeroStats, lin)

C1_Witness ==
    /\ AllReturned
    /\ lin = << STAT_OPEN, STAT_OPEN >>
    /\ stats.num_open = 2
    /\ stats.num_reqs = 2

(***************************************************************************)
(* C2: the counters a showstats call reads never reflect a partially       *)
(* applied Open: the num_open and num_reqs it read (lines 80-81 and lines  *)
(* 138-139) are those of the counters after some prefix of the updates.    *)
(***************************************************************************)
C2_NoTornOpen ==
    \A t \in Threads :
        /\ (strbuf[t].opens # UNSET /\ strbuf[t].reqs # UNSET) =>
               \E s \in Snapshots :
                   /\ strbuf[t].opens = Snprintf(StrBufSize, s.num_open)
                   /\ strbuf[t].reqs = Snprintf(StrBufSize, s.num_reqs)
        /\ (message_buffer[t].page.num_open # UNSET
               /\ message_buffer[t].page.num_reqs # UNSET) =>
               \E s \in Snapshots :
                   /\ message_buffer[t].page.num_open = Decimal(s.num_open)
                   /\ message_buffer[t].page.num_reqs = Decimal(s.num_reqs)

(***************************************************************************)
(* C3: after any sequence of Open and Close calls, num_open is the number  *)
(* of Opens minus the number of Closes and num_reqs the number of Opens.   *)
(***************************************************************************)
OnlyOpenClose == \A i \in 1..Len(lin) : lin[i] \in {STAT_OPEN, STAT_CLOSE}

C3_OpenMinusClose ==
    (AllReturned /\ OnlyOpenClose) =>
        /\ stats.num_open = CountOf(lin, STAT_OPEN) - CountOf(lin, STAT_CLOSE)
        /\ stats.num_reqs = CountOf(lin, STAT_OPEN)

\* C3 as amended: the two equalities hold modulo 2^w, w the width of an
\* unsigned long: a Close at zero wraps num_open to 2^w - 1.
C3_OpenMinusCloseWrapped ==
    (AllReturned /\ OnlyOpenClose) =>
        /\ stats.num_open = WrapUL(CountOf(lin, STAT_OPEN) - CountOf(lin, STAT_CLOSE))
        /\ stats.num_reqs = WrapUL(CountOf(lin, STAT_OPEN))

C3_Witness ==
    /\ AllReturned
    /\ OnlyOpenClose
    /\ CountOf(lin, STAT_CLOSE) > CountOf(lin, STAT_OPEN)
    /\ CountOf(lin, STAT_OPEN) > 0
    /\ stats.num_open = Modulus + CountOf(lin, STAT_OPEN) - CountOf(lin, STAT_CLOSE)

(***************************************************************************)
(* C4: an update_stats call with a level outside the five kinds changes no *)
(* counter in any of its steps and reaches its return with ret = -1 and    *)
(* stats_update_lock released; a call with a valid level reaches its       *)
(* return with ret = 0.                                                    *)
(***************************************************************************)
C4_InvalidLevel ==
    [][\A t \in Threads :
          /\ (update_level[t] = STAT_OTHER /\ pc'[t] # pc[t]) => stats' = stats
          /\ (pc[t] # "u198" /\ pc'[t] = "u198") =>
                 /\ stats_update_lock' # t
                 /\ ret'[t] = (IF update_level'[t] = STAT_OTHER THEN -1 ELSE 0)]_vars

C4_Witness ==
    \E t \in Threads :
        /\ pc[t] = "u198"
        /\ update_level[t] = STAT_OTHER
        /\ ret[t] = -1
        /\ stats_update_lock # t
        /\ stats = ZeroStats

(***************************************************************************)
(* C5: with an accept header present, the scan selects the template of the *)
(* first entry of stat_types, in insertion order, whose content type is a  *)
(* substring of the header; a header containing both text/html and         *)
(* application/json selects the text/html template.                        *)
(***************************************************************************)
C5_FirstMatchWins ==
    \A t \in Threads :
        (Selected(t) /\ ~request_headers[t].null) =>
            LET m == Matching(request_headers[t].str)
            IN /\ m # {} =>
                      \E i \in m : /\ \A j \in m : i <= j
                                   /\ stats_template[t] = StatTypes[i].value
               /\ (1 \in m /\ 2 \in m) => stats_template[t] = StatsHtml

C5_Witness ==
    \E t \in Threads :
        /\ Selected(t)
        /\ request_headers[t] = StrPtr(AppJson \o TextHtml)
        /\ stats_template[t] = StatsHtml

(***************************************************************************)
(* C6: when no entry of stat_types matches the accept header, or the       *)
(* request has no accept header, and config->statpage is set, the          *)
(* selection completes with stats_template = config->statpage.             *)
(***************************************************************************)
C6_FallbackSelected ==
    \A t \in Threads :
        (InShowstats(t) /\ statpage # NULL /\ NoMatch(t)) =>
            /\ ~(crashed /\ pc[t] = "s86")
            /\ Selected(t) => stats_template[t] = statpage

(***************************************************************************)
(* C7: with no matching entry or no accept header, and no statpage         *)
(* configured, the render selects no template and sends the built-in page, *)
(* and the five counters in that page are those of one state of the        *)
(* counters: the state after some prefix of the updates.                   *)
(***************************************************************************)
C7_BuiltinPageIsSnapshot ==
    \A t \in Threads :
        (InShowstats(t) /\ statpage = NULL /\ NoMatch(t)) =>
            /\ ~(crashed /\ pc[t] = "s86")
            /\ Selected(t) => stats_template[t] = NULL
            /\ conn[t].body # NONE =>
                   /\ conn[t].body = "builtin"
                   /\ \E s \in Snapshots :
                          \A f \in Fields : conn[t].page[f] = Decimal(s[f])

(***************************************************************************)
(* C8: when a template was selected and fopen failed, showstats sends the  *)
(* built-in page with status 200 and returns 0.                            *)
(***************************************************************************)
OpenFailed(t) == InShowstats(t) /\ statfile[t] = NULL

C8_OpenFailureReturnsSuccess ==
    \A t \in Threads :
        (pc[t] = "s_return" /\ OpenFailed(t)) =>
            /\ ret[t] = 0
            /\ conn[t].body = "builtin"
            /\ conn[t].status = 200

\* C8 as amended: when a template was selected and fopen failed, showstats
\* never takes the template path: if the page buffer cannot be allocated it
\* sends nothing and returns -1, otherwise it sends the built-in page with
\* status 200 and returns 0 if that send succeeded and -1 if it failed.
C8_OpenFailureDegrades ==
    \A t \in Threads :
        OpenFailed(t) =>
            /\ pc[t] \in {"s111", "s118", "s143", "s114", "s150", "s_return"}
            /\ conn[t].vars = NoStr
            /\ conn[t].body \in {NONE, "builtin"}
            /\ pc[t] = "s_return" =>
                   /\ malloc_failed[t] => (ret[t] = -1 /\ conn[t] = NoConn)
                   /\ ~malloc_failed[t] =>
                          /\ conn[t].body = "builtin"
                          /\ conn[t].status = 200
                          /\ ret[t] = (IF conn[t].senderr THEN -1 ELSE 0)

C8_Witness ==
    \E t \in Threads :
        /\ pc[t] = "s_return"
        /\ OpenFailed(t)
        /\ stats_template[t] = StatsHtml
        /\ conn[t].body = "builtin"
        /\ conn[t].status = 200
        /\ ret[t] = 0

(***************************************************************************)
(* C9: on the built-in path and on the template path, when a send to the   *)
(* client failed showstats returns a negative value.                       *)
(***************************************************************************)
C9_SendFailureReturnsFailure ==
    \A t \in Threads :
        (pc[t] = "s_return" /\ conn[t].senderr) => ret[t] < 0

(***************************************************************************)
(* C10: showstats returns a failure only if a send failed; when every send *)
(* succeeds it returns 0.                                                  *)
(***************************************************************************)
C10_OnlySendFailurePropagates ==
    \A t \in Threads :
        pc[t] = "s_return" =>
            /\ ret[t] \in {0, -1}
            /\ ret[t] = -1 => conn[t].senderr

\* C10 as amended: showstats returns a failure only if the send of the
\* built-in page failed or the buffer of the built-in page could not be
\* allocated; when the allocation and every send succeed it returns 0.
C10_OnlySendOrAllocFailurePropagates ==
    \A t \in Threads :
        pc[t] = "s_return" =>
            /\ ret[t] \in {0, -1}
            /\ ret[t] = -1 => (conn[t].senderr \/ malloc_failed[t])

C10_Witness ==
    \E t \in Threads :
        /\ pc[t] = "s_return"
        /\ ret[t] = -1
        /\ malloc_failed[t]
        /\ ~conn[t].senderr

(***************************************************************************)
(* C11: at most one showstats call at a time is between opening the        *)
(* template (or building the built-in page) and finishing its send and     *)
(* close; two calls never have the template file open at the same time.    *)
(***************************************************************************)
\* positions from line 110 up to the unlock of lines 114, 150 and 162
RenderPcs == {"s110", "s111", "s118", "s143", "s114", "s150",
              "s153", "s159", "s160", "s161", "s162"}

Rendering(t) == pc[t] \in RenderPcs

C11_OneRenderAtATime ==
    \A t, u \in Threads :
        t # u =>
            /\ ~(Rendering(t) /\ Rendering(u))
            /\ ~(statfile[t] = "open" /\ statfile[u] = "open")

C11_Witness ==
    \E t, u \in Threads :
        /\ t # u
        /\ pc[t] = "s160"
        /\ statfile[t] = "open"
        /\ pc[u] = "s108"

(***************************************************************************)
(* C12: every step of showstats that reads counters for the report, reads  *)
(* the accept header, scans stat_types or chooses the template is taken    *)
(* while the calling thread holds stats_file_lock, as is every step up to  *)
(* the close of the template.                                              *)
(***************************************************************************)
\* positions of the reads of lines 80-84 and of the selection of lines 86-106
PreLockPcs == {"s80", "s81", "s82", "s83", "s84", "s86"}

C12_LockHeldWholeRender ==
    \A t \in Threads :
        (pc[t] \in PreLockPcs \cup RenderPcs) => stats_file_lock = t

\* C12 as amended: stats_file_lock is held from line 108, before the
\* template is opened, through the build or stream of the page and the
\* close, and is released before the return; the counter reads of lines
\* 80-84, the read of the accept header, the scan of stat_types and the
\* choice of the template are taken before the lock, without holding it.
C12_LockHeldFromOpen ==
    \A t \in Threads :
        /\ Rendering(t) => stats_file_lock = t
        /\ (pc[t] \in PreLockPcs \cup {"s108", "s_return"}) => stats_file_lock # t

C12_Witness ==
    \E t \in Threads :
        /\ pc[t] = "s161"
        /\ stats_file_lock = t
        /\ stats_template[t] = StatsHtml
        /\ conn[t].body = "template"

(***************************************************************************)
(* C13: whenever a showstats call has reached its return, or no call is in *)
(* progress in a thread, that thread has no template file open: the file   *)
(* a call opened is closed by the same call on every exit path.            *)
(***************************************************************************)
C13_TemplateClosedOnReturn ==
    \A t \in Threads :
        (pc[t] = "s_return" \/ ~InShowstats(t)) => statfile[t] # "open"

C13_Witness ==
    \E t \in Threads :
        /\ pc[t] = "s_return"
        /\ statfile[t] = "closed"
        /\ conn[t].senderr
        /\ ret[t] = 0

(***************************************************************************)
(* C14: a thread that is about to read or write a counter field, in        *)
(* update_stats or in showstats, holds stats_update_lock, and a thread     *)
(* that has reached the return of its call does not hold it.               *)
(***************************************************************************)
\* positions whose next step reads or writes a field of *stats
AccessesCounters(t) ==
    \/ pc[t] = "u_case" /\ pending[t] # << >>
    \/ pc[t] = "u_store"
    \/ pc[t] \in {"s80", "s81", "s82", "s83", "s84", "s118"}

C14_CounterLockGuardsAllAccess ==
    \A t \in Threads :
        /\ AccessesCounters(t) => stats_update_lock = t
        /\ pc[t] \in {"u198", "s_return", "idle"} => stats_update_lock # t

(***************************************************************************)
(* C15: the five values one showstats call registers as opens, reqs,       *)
(* badconns, deniedconns and refusedconns are together the decimal values  *)
(* of the counters as they stood after some prefix of the linearised       *)
(* updates.                                                                *)
(***************************************************************************)
C15_VariablesAreConsistentPrefix ==
    \A t \in Threads :
        conn[t].vars # NoStr =>
            \E s \in Snapshots :
                /\ conn[t].vars.opens = Decimal(s.num_open)
                /\ conn[t].vars.reqs = Decimal(s.num_reqs)
                /\ conn[t].vars.badconns = Decimal(s.num_badcons)
                /\ conn[t].vars.denied = Decimal(s.num_denied)
                /\ conn[t].vars.refused = Decimal(s.num_refused)

(***************************************************************************)
(* C16: every response showstats hands to the connection carries status    *)
(* 200, on the built-in path, the template path and the degraded path.     *)
(***************************************************************************)
C16_StatusAlwaysOk ==
    \A t \in Threads :
        /\ conn[t].status \in {0, 200}
        /\ (conn[t].headers \/ conn[t].body # NONE) => conn[t].status = 200

C16_Witness ==
    \E t \in Threads :
        /\ pc[t] = "s_return"
        /\ conn[t].body = "template"
        /\ conn[t].senderr
        /\ conn[t].status = 200

(***************************************************************************)
(* C17: a step changes counters only as the store of an update_stats call, *)
(* and then only the fields of that call's kind: num_badcons for           *)
(* BadConnection, num_open and num_reqs for Open, num_open for Close,      *)
(* num_refused for Refuse, num_denied for Denied; no step of showstats     *)
(* changes a counter, and no step changes stat_types.                      *)
(***************************************************************************)
OwnFields(level) ==
    CASE level = STAT_BADCONN -> {"num_badcons"}
      [] level = STAT_OPEN    -> {"num_open", "num_reqs"}
      [] level = STAT_CLOSE   -> {"num_open"}
      [] level = STAT_REFUSE  -> {"num_refused"}
      [] level = STAT_DENIED  -> {"num_denied"}
      [] OTHER                -> {}

C17_OnlyOwnFieldsChange ==
    [][/\ stat_types' = stat_types
       /\ stats' # stats =>
              \E t \in Threads :
                  /\ pc[t] = "u_store"
                  /\ pc'[t] = "u_case"
                  /\ \A f \in Fields :
                         stats'[f] # stats[f] => f \in OwnFields(update_level[t])
       /\ \A t \in Threads :
              (InShowstats(t) /\ (pc'[t] # pc[t] \/ message_buffer'[t] # message_buffer[t]))
                  => stats' = stats]_vars

C17_Witness ==
    /\ AllReturned
    /\ lin = << STAT_CLOSE >>
    /\ ncalls = 2
    /\ stats = [ZeroStats EXCEPT !.num_open = Modulus - 1]

(***************************************************************************)
(* C18: on the template path every step of one render finds the earlier    *)
(* steps done and the later ones not: the variables are registered on an   *)
(* open template, the headers are sent after the variables and before any  *)
(* body, the body is streamed after the headers from the open template,    *)
(* the template is closed after the body while the lock is held, the lock  *)
(* is released only after the close, and the call returns only after the   *)
(* release.                                                                *)
(***************************************************************************)
OnTemplatePath(t) == statfile[t] \in {"open", "closed"}

C18_TemplatePathOrder ==
    [][\A t \in Threads :
          (OnTemplatePath(t) /\ InShowstats(t) /\ pc[t] # "s_return") =>
              /\ conn'[t].vars # conn[t].vars =>
                     /\ statfile[t] = "open"
                     /\ ~conn[t].headers /\ conn[t].body = NONE
              /\ (conn'[t].headers /\ ~conn[t].headers) =>
                     /\ conn[t].vars # NoStr
                     /\ conn[t].body = NONE
                     /\ statfile[t] = "open"
              /\ (conn'[t].body # conn[t].body /\ conn[t].body = NONE) =>
                     /\ conn'[t].body = "template"
                     /\ conn[t].headers
                     /\ statfile[t] = "open"
              /\ (statfile'[t] = "closed" /\ statfile[t] = "open") =>
                     /\ conn[t].body = "template"
                     /\ stats_file_lock = t /\ stats_file_lock' = t
              /\ (stats_file_lock = t /\ stats_file_lock' # t) =>
                     statfile[t] = "closed"
              /\ (pc'[t] = "s_return" /\ pc[t] # "s_return") =>
                     /\ statfile'[t] = "closed"
                     /\ stats_file_lock' # t
                     /\ ret'[t] = 0]_vars

C18_Witness ==
    \E t \in Threads :
        /\ pc[t] = "s_return"
        /\ statfile[t] = "closed"
        /\ conn[t].vars # NoStr
        /\ conn[t].headers
        /\ conn[t].body = "template"
        /\ stats_file_lock # t

(***************************************************************************)
(* C19: no thread holds stats_update_lock and stats_file_lock together, a  *)
(* thread at the return of showstats or update_stats (or outside any call) *)
(* holds neither lock, and while some call has started and not returned    *)
(* some step of the program can be taken, so that under weak fairness      *)
(* every started call returns.                                             *)
(***************************************************************************)
HoldsLock(t) == stats_update_lock = t \/ stats_file_lock = t

C19_EveryCallReturnsLockFree ==
    /\ \A t \in Threads : ~(stats_update_lock = t /\ stats_file_lock = t)
    /\ \A t \in Threads : pc[t] \in {"idle", "u198", "s_return"} => ~HoldsLock(t)
    /\ (\E t \in Threads : pc[t] # "idle") => ENABLED Next

(***************************************************************************)
(* C20: while every Close so far was preceded by its own Open, in every    *)
(* state in which stats_update_lock is not held num_open is at most        *)
(* num_reqs and has not underflowed; and a Close issued with num_open at 0 *)
(* returns 0 and leaves num_open at 2^w - 1.                               *)
(***************************************************************************)
\* every Close in the linearised updates has an earlier Open of its own
ContractKept ==
    \A k \in 0..Len(lin) :
        CountOf(SubSeq(lin, 1, k), STAT_CLOSE) <= CountOf(SubSeq(lin, 1, k), STAT_OPEN)

\* the counters as they stood before the last linearised update
BeforeLast == ApplySeq(ZeroStats, SubSeq(lin, 1, Len(lin) - 1))

\* the call of thread t was a Close issued with num_open at 0 and has unlocked
ClosedAtZero(t) ==
    /\ pc[t] = "u198"
    /\ update_level[t] = STAT_CLOSE
    /\ BeforeLast.num_open = 0

C20_BrokenContractWraps ==
    \A t \in Threads :
        ClosedAtZero(t) => (ret[t] = 0 /\ stats.num_open = Modulus - 1)

C20_OpenAtMostRequests ==
    /\ (ContractKept /\ stats_update_lock = Unlocked) =>
           /\ stats.num_open <= stats.num_reqs
           /\ \A t \in Threads : ~ClosedAtZero(t)
    /\ C20_BrokenContractWraps

\* C20 as amended: the bound on num_open holds while fewer than 2^w Opens
\* were counted, that is while num_reqs itself has not wrapped to 0.
C20_OpenAtMostRequestsUntilWrap ==
    /\ (ContractKept /\ stats_update_lock = Unlocked
           /\ CountOf(lin, STAT_OPEN) < Modulus) =>
           /\ stats.num_open <= stats.num_reqs
           /\ \A t \in Threads : ~ClosedAtZero(t)
    /\ C20_BrokenContractWraps

C20_Witness ==
    \E t \in Threads :
        /\ ClosedAtZero(t)
        /\ lin = << STAT_OPEN, STAT_CLOSE, STAT_CLOSE >>
        /\ ret[t] = 0
        /\ stats.num_open = Modulus - 1
        /\ stats.num_reqs = 1

====
